---- MODULE Spec2Model ----
(***************************************************************************)
(* Model of the poster-verification backend: the result reconciler         *)
(* (ValidationService in src/src/services/validationPrompt.js), its entry  *)
(* point validatePoster, and the POST /api/validate handler of             *)
(* src/src/app.js.                                                         *)
(*                                                                         *)
(* JavaScript values are represented as follows.                           *)
(*   - an optional value (a property that may be undefined or null) is a   *)
(*     sequence of length 0 (absent) or 1 (present): None, Some(v);        *)
(*   - a string that the code only tests or copies is a TLA+ string;       *)
(*   - a string that the code searches or concatenates (raw text, details, *)
(*     rejectionReason, step4_decision_logic) is a sequence of atoms, each *)
(*     atom a word, a digit, a separator or a whole fixed message;         *)
(*     concatenation is \o and String.includes is contiguous containment;  *)
(*   - documentType.reasoning is represented by its length, the only thing *)
(*     the code reads of it.                                               *)
(***************************************************************************)
EXTENDS Integers, Sequences, FiniteSets, TLC

\* ------------------------------------------------------------------------
\* Optional values
\* ------------------------------------------------------------------------
None == <<>>

Some(v) == <<v>>

Has(o) == o # <<>>

Get(o) == o[1]

\* JS truthiness of an optional boolean: undefined, null and false are falsy.
TruthyBool(o) == Has(o) /\ Get(o) = TRUE

\* JS truthiness of an optional string or array-like sequence value held as
\* a sequence of atoms: undefined and "" are falsy.
TruthyStr(o) == Has(o) /\ Get(o) # <<>>

\* ------------------------------------------------------------------------
\* Strings as sequences of atoms
\* ------------------------------------------------------------------------
\* String.prototype.includes: s contains m as a contiguous run.
Includes(s, m) ==
    \E i \in 1..(Len(s) + 1) :
        /\ i + Len(m) - 1 <= Len(s)
        /\ \A k \in 1..Len(m) : s[i + k - 1] = m[k]

\* String.prototype.toLowerCase on one atom: only Latin atoms change.
LowerAtom(c) ==
    CASE c = "Fort" -> "fort"
      [] c = "Castle" -> "castle"
      [] c = "Gate" -> "gate"
      [] OTHER -> c

toLowerCase(s) == [i \in 1..Len(s) |-> LowerAtom(s[i])]

\* \d of a JavaScript regular expression without the u flag: ASCII digits
\* only; the Arabic-Indic digits are not matched.
IsDigit(c) == c \in {"0", "1", "2", "3", "4", "5", "6", "7", "8", "9"}

\* \s
IsSpace(c) == c \in {" ", "\n"}

\* the separators of the date pattern, [\/\-\.]
IsDateSep(c) == c \in {"/", "-", "."}

At(s, i, c) == i >= 1 /\ i <= Len(s) /\ s[i] = c

DigitAt(s, i) == i >= 1 /\ i <= Len(s) /\ IsDigit(s[i])

\* n consecutive digits starting at i
DigitsAt(s, i, n) == \A k \in 0..(n - 1) : DigitAt(s, i + k)

\* position reached from i by \s* (greedy; the next pattern atom is never a
\* space, so no backtracking is involved)
RECURSIVE SkipSpaces(_, _)
SkipSpaces(s, i) ==
    IF i <= Len(s) /\ IsSpace(s[i]) THEN SkipSpaces(s, i + 1) ELSE i

\* "." matches every atom but a line terminator: lo..hi holds no newline
NoNewline(s, lo, hi) == \A k \in lo..hi : s[k] # "\n"

\* /A.*B/ for one-atom A and B: A at i, B at j > i, same line
DotStarBetween(s, A(_, _), B(_, _)) ==
    \E i \in 1..Len(s) : \E j \in (i + 1)..Len(s) :
        A(s, i) /\ B(s, j) /\ NoNewline(s, i + 1, j - 1)

\* ------------------------------------------------------------------------
\* The regular expressions of validateNumberDetection.  The Arabic words of
\* the patterns are written as Latin atoms:
\*   sana = "year", liltawasul = "for contact", ruya = "vision",
\*   raqm = "number", almurashah = "the candidate".
\* ------------------------------------------------------------------------
IsSana(s, i) == At(s, i, "sana")

IsLiltawasul(s, i) == At(s, i, "liltawasul")

IsRuya(s, i) == At(s, i, "ruya")

FourDigitsAt(s, i) == DigitsAt(s, i, 4)

\* /\d{8,}/
PhonePattern(s) == \E i \in 1..Len(s) : DigitsAt(s, i, 8)

\* /\d{1,2}[\/\-\.]\d{1,2}[\/\-\.]\d{2,4}/
DatePattern(s) ==
    \E i \in 1..Len(s) : \E n \in 1..2 :
        /\ DigitAt(s, i)
        /\ i + 1 <= Len(s) /\ IsDateSep(s[i + 1])
        /\ DigitsAt(s, i + 2, n)
        /\ i + 2 + n <= Len(s) /\ IsDateSep(s[i + 2 + n])
        /\ DigitsAt(s, i + 3 + n, 2)

\* /sana.*\d+|\d+.*sana/
AgePattern(s) ==
    DotStarBetween(s, IsSana, DigitAt) \/ DotStarBetween(s, DigitAt, IsSana)

\* /liltawasul.*\d+|\d+.*liltawasul/
ContactPattern(s) ==
    DotStarBetween(s, IsLiltawasul, DigitAt)
        \/ DotStarBetween(s, DigitAt, IsLiltawasul)

\* /ruya.*\d{4}|\d{4}.*ruya/
VisionPattern(s) ==
    \/ DotStarBetween(s, IsRuya, FourDigitsAt)
    \/ \E i \in 1..Len(s) : \E j \in (i + 4)..Len(s) :
           FourDigitsAt(s, i) /\ IsRuya(s, j) /\ NoNewline(s, i + 4, j - 1)

\* the list falsePositivePatterns, in order
falsePositivePatterns(s) ==
    << PhonePattern(s), DatePattern(s), AgePattern(s), ContactPattern(s),
       VisionPattern(s) >>

\* /raqm\s*almurashah|almurashah\s*raqm/
hasCandidateContext(s) ==
    \E i \in 1..Len(s) :
        \/ At(s, i, "raqm") /\ At(s, SkipSpaces(s, i + 1), "almurashah")
        \/ At(s, i, "almurashah") /\ At(s, SkipSpaces(s, i + 1), "raqm")

\* ------------------------------------------------------------------------
\* The regular expressions of validateTextContent.  For each pattern,
\* XEnd(s, i) is the index of the last atom of the match that starts at i,
\* or 0 when the pattern does not match at i.  Atoms:
\*   fath = "opening", milaf = "file", bahithin = "seekers",
\*   albahithin = "the seekers", an takun ... muktamila = "that ... be
\*   complete", daman = "guaranteeing", khadamat = "services",
\*   husul = "obtaining", saasaa = "I will seek", ala = "on",
\*   lam = the letter l, tatweel = the elongation mark.
\* ------------------------------------------------------------------------
MaxOf(S) == CHOOSE m \in S : \A x \in S : x <= m

MinOf(S) == CHOOSE m \in S : \A x \in S : m <= x

\* greedy .* followed by the atom c: the last c on the line after position i
LastOnLine(s, i, c) ==
    LET K == { k \in (i + 1)..Len(s) : s[k] = c /\ NoNewline(s, i + 1, k - 1) }
    IN IF K = {} THEN 0 ELSE MaxOf(K)

\* /fath\s*milaf\s*bahithin|milaf\s*albahithin/i
jobSeekerEnd(s, i) ==
    LET j == SkipSpaces(s, i + 1)
        k == SkipSpaces(s, j + 1)
    IN IF At(s, i, "fath") /\ At(s, j, "milaf") /\ At(s, k, "bahithin") THEN k
       ELSE IF At(s, i, "milaf") /\ At(s, j, "albahithin") THEN j
       ELSE 0

\* /an\s*takun.*muktamila|daman.*khadamat|daman.*husul/i
completeServiceEnd(s, i) ==
    LET j == SkipSpaces(s, i + 1)
    IN IF At(s, i, "an") /\ At(s, j, "takun") /\ LastOnLine(s, j, "muktamila") # 0
          THEN LastOnLine(s, j, "muktamila")
       ELSE IF At(s, i, "daman") /\ LastOnLine(s, i, "khadamat") # 0
          THEN LastOnLine(s, i, "khadamat")
       ELSE IF At(s, i, "daman") /\ LastOnLine(s, i, "husul") # 0
          THEN LastOnLine(s, i, "husul")
       ELSE 0

\* /saasaa\s*(ala|lam tatweel?)\s*husul/i
seekObtainEnd(s, i) ==
    LET j == SkipSpaces(s, i + 1)
        ka == SkipSpaces(s, j + 1)
        kt == SkipSpaces(s, j + 2)
    IN IF ~At(s, i, "saasaa") THEN 0
       ELSE IF At(s, j, "ala") /\ At(s, ka, "husul") THEN ka
       ELSE IF At(s, j, "lam") /\ At(s, j + 1, "tatweel") /\ At(s, kt, "husul")
          THEN kt
       ELSE IF At(s, j, "lam") /\ At(s, ka, "husul") THEN ka
       ELSE 0

\* RegExp.prototype.test
Test(s, End(_, _)) == \E i \in 1..Len(s) : End(s, i) # 0

\* text.match(pattern)[0]: the leftmost match
Match0(s, End(_, _)) ==
    LET i == MinOf({ k \in 1..Len(s) : End(s, k) # 0 })
    IN SubSeq(s, i, End(s, i))

\* ------------------------------------------------------------------------
\* Fixed texts of the program
\* ------------------------------------------------------------------------
NotProvided == "Not provided"

ModelUsed == "qwen3-vl-plus"

\* the rule table of validateTextContent: the violationData and rejectionMsg
\* of its three calls to flagDeterministicViolation
JobSeekerExplanation ==
    "Prohibited content: 'Job Seeker File' is an executive authority matter."

JobSeekerMsg ==
    "Prohibited content: Mentioning 'Job Seeker File' is strictly prohibited."

CompleteServiceExplanation ==
    "Prohibited content: Guaranteeing services or completeness is outside Shura powers."

CompleteServiceMsg ==
    "Prohibited content: Candidates cannot guarantee service completion or outcomes."

SeekObtainExplanation ==
    "Prohibited Grammar: 'Seeking to obtain' implies executive benefit delivery."

SeekObtainMsg ==
    "Prohibited language: 'Seeking to obtain' is a prohibited form of promise."

\* the messages of generateRejectionReason
TrainingAdMsg ==
    "The request is an advertisement for a training course and not an election advertisement for the candidate"

typeMap(actualType) ==
    CASE actualType = Some("training_ad") -> Some(TrainingAdMsg)
      [] actualType = Some("press_interview") ->
            Some("The attached document is a press interview and not election propaganda")
      [] actualType = Some("proposal") ->
            Some("The publication has nothing to do with election propaganda. Rather, it is a proposal to solve a problem")
      [] actualType = Some("social_post") ->
            Some("The post has nothing to do with election propaganda")
      [] OTHER -> None

\* ------------------------------------------------------------------------
\* Array helpers
\* ------------------------------------------------------------------------
\* Array.prototype.find: the first element satisfying P, as an optional
Find(items, P(_)) ==
    LET I == { i \in 1..Len(items) : P(items[i]) }
    IN IF I = {} THEN None ELSE Some(items[MinOf(I)])

\* Array.prototype.filter
Filter(items, P(_)) == SelectSeq(items, P)

\* obj?.items || [] for an optional category object
ItemsOrEmpty(cat) ==
    IF Has(cat) /\ Has(Get(cat).items) THEN Get(Get(cat).items) ELSE <<>>

\* result.categories?.<name> for name in the four category names
Category(result, name) ==
    IF Has(result.categories) THEN Get(result.categories)[name] ELSE None

\* The outcome of a call: a value returned, or an exception raised with its
\* message (value then holds the object as the call left it).
Return(v) == [threw |-> FALSE, value |-> v, error |-> ""]

Throw(msg, v) == [threw |-> TRUE, value |-> v, error |-> msg]

\* ------------------------------------------------------------------------
\* generateRejectionReason: the first matching rule of the priority list.
\* The outcome's value is the message as a one-atom string.
\* ------------------------------------------------------------------------
IsFound(item) == TruthyBool(item.found)

IsViolated(item) == TruthyBool(item.violated)

HasRule(items, rule) == \E i \in 1..Len(items) : items[i].rule = rule

FirstWithRule(items, rule) ==
    items[MinOf({ i \in 1..Len(items) : items[i].rule = rule })]

IsMissingElement(required, element) ==
    \E i \in 1..Len(required) :
        required[i].element = element /\ ~TruthyBool(required[i].present)

\* A faulty variant of generateRejectionReason: the candidate-number rule is
\* tried before the combined number-and-logo rule.
generateRejectionReason_NumberBeforeCombined(result) ==
    LET prohibited == ItemsOrEmpty(Category(result, "prohibitedContent"))
        violations == Filter(prohibited, IsFound)
        hasNumber == HasRule(violations, "CANDIDATE_NUMBER")
        hasLogo == HasRule(violations, "ELECTION_LOGO")
        contentScope == ItemsOrEmpty(Category(result, "contentScope"))
        scopeViolations == Filter(contentScope, IsViolated)
        required == ItemsOrEmpty(Category(result, "requiredContent"))
        \* historical.details.toLowerCase()
        historical == FirstWithRule(violations, "HISTORICAL_SYMBOLS")
        detail == toLowerCase(Get(historical.details))
    IN
    IF Has(result.documentType)
          /\ ~TruthyBool(Get(result.documentType).isElectionPropaganda)
    THEN IF Has(typeMap(Get(result.documentType).actualType))
         THEN Return(<<Get(typeMap(Get(result.documentType).actualType))>>)
         ELSE Return(<<"This is not election propaganda">>)
    ELSE IF Has(result.imageQuality)
               /\ ~TruthyBool(Get(result.imageQuality).isAcceptable)
               /\ ~Has(Get(result.imageQuality).issues)
    THEN Throw("Cannot read properties of undefined (reading 'includes')", <<>>)
    ELSE IF Has(result.imageQuality)
               /\ ~TruthyBool(Get(result.imageQuality).isAcceptable)
               /\ \E i \in 1..Len(Get(Get(result.imageQuality).issues)) :
                      Get(Get(result.imageQuality).issues)[i] = "blurry"
    THEN Return(<<"Photo is blurry">>)
    ELSE IF hasNumber THEN Return(<<"Please remove the candidate number">>)
    ELSE IF hasNumber /\ hasLogo
    THEN Return(<<"Removal of the candidate's number and election logo is required">>)
    ELSE IF hasLogo THEN Return(<<"Please remove the election logo">>)
    ELSE IF HasRule(violations, "HISTORICAL_SYMBOLS")
    THEN IF ~Has(historical.details)
         THEN Throw("Cannot read properties of undefined (reading 'toLowerCase')", <<>>)
         ELSE IF Includes(detail, <<"fort">>) \/ Includes(detail, <<"castle">>)
         THEN Return(<<"Please remove the fort/castle from the image background as it is a historical symbol">>)
         ELSE IF Includes(detail, <<"gate">>)
         THEN Return(<<"Please remove the gate from the image background as it is a historical symbol">>)
         ELSE Return(<<"Please remove the historical symbol from the image background">>)
    ELSE IF HasRule(violations, "PUBLIC_FIGURES")
    THEN Return(<<"The poster contains public figures">>)
    ELSE IF HasRule(violations, "STATE_EMBLEM")
    THEN Return(<<"Please remove the state emblem">>)
    ELSE IF HasRule(violations, "NATIONAL_FLAG")
    THEN Return(<<"Please remove the national flag">>)
    ELSE IF HasRule(scopeViolations, "OBJECTIVES_OUTSIDE_POWERS")
    THEN Return(<<"Most of the objectives mentioned fall outside the legally defined powers of the Shura Council members">>)
    ELSE IF HasRule(scopeViolations, "ELECTION_PROMISES")
    THEN Return(<<"The content of the objective involves an election promise">>)
    ELSE IF HasRule(scopeViolations, "DEVIATION_FROM_SCOPE")
    THEN Return(<<"The poster deviated from the content of the election campaign, which includes the candidate's picture, biography, electoral vision, goals, or roles">>)
    ELSE IF HasRule(scopeViolations, "PREVIOUS_TERM_EXPLOITATION")
    THEN Return(<<"Cannot exploit the previous term achievements">>)
    ELSE IF IsMissingElement(required, "CANDIDATE_PHOTO")
               \/ IsMissingElement(required, "CANDIDATE_NAME")
    THEN Return(<<"Election campaigning is limited to the following: candidate photo, name, CV, and vision">>)
    ELSE Return(<<"Poster does not comply with election campaign regulations">>)

generateRejectionReason(result) ==
    LET prohibited == ItemsOrEmpty(Category(result, "prohibitedContent"))
        violations == Filter(prohibited, IsFound)
        hasNumber == HasRule(violations, "CANDIDATE_NUMBER")
        hasLogo == HasRule(violations, "ELECTION_LOGO")
        contentScope == ItemsOrEmpty(Category(result, "contentScope"))
        scopeViolations == Filter(contentScope, IsViolated)
        required == ItemsOrEmpty(Category(result, "requiredContent"))
        \* historical.details.toLowerCase()
        historical == FirstWithRule(violations, "HISTORICAL_SYMBOLS")
        detail == toLowerCase(Get(historical.details))
    IN
    IF Has(result.documentType)
          /\ ~TruthyBool(Get(result.documentType).isElectionPropaganda)
    THEN IF Has(typeMap(Get(result.documentType).actualType))
         THEN Return(<<Get(typeMap(Get(result.documentType).actualType))>>)
         ELSE Return(<<"This is not election propaganda">>)
    ELSE IF Has(result.imageQuality)
               /\ ~TruthyBool(Get(result.imageQuality).isAcceptable)
               /\ ~Has(Get(result.imageQuality).issues)
    THEN Throw("Cannot read properties of undefined (reading 'includes')", <<>>)
    ELSE IF Has(result.imageQuality)
               /\ ~TruthyBool(Get(result.imageQuality).isAcceptable)
               /\ \E i \in 1..Len(Get(Get(result.imageQuality).issues)) :
                      Get(Get(result.imageQuality).issues)[i] = "blurry"
    THEN Return(<<"Photo is blurry">>)
    ELSE IF hasNumber /\ hasLogo
    THEN Return(<<"Removal of the candidate's number and election logo is required">>)
    ELSE IF hasNumber THEN Return(<<"Please remove the candidate number">>)
    ELSE IF hasLogo THEN Return(<<"Please remove the election logo">>)
    ELSE IF HasRule(violations, "HISTORICAL_SYMBOLS")
    THEN IF ~Has(historical.details)
         THEN Throw("Cannot read properties of undefined (reading 'toLowerCase')", <<>>)
         ELSE IF Includes(detail, <<"fort">>) \/ Includes(detail, <<"castle">>)
         THEN Return(<<"Please remove the fort/castle from the image background as it is a historical symbol">>)
         ELSE IF Includes(detail, <<"gate">>)
         THEN Return(<<"Please remove the gate from the image background as it is a historical symbol">>)
         ELSE Return(<<"Please remove the historical symbol from the image background">>)
    ELSE IF HasRule(violations, "PUBLIC_FIGURES")
    THEN Return(<<"The poster contains public figures">>)
    ELSE IF HasRule(violations, "STATE_EMBLEM")
    THEN Return(<<"Please remove the state emblem">>)
    ELSE IF HasRule(violations, "NATIONAL_FLAG")
    THEN Return(<<"Please remove the national flag">>)
    ELSE IF HasRule(scopeViolations, "OBJECTIVES_OUTSIDE_POWERS")
    THEN Return(<<"Most of the objectives mentioned fall outside the legally defined powers of the Shura Council members">>)
    ELSE IF HasRule(scopeViolations, "ELECTION_PROMISES")
    THEN Return(<<"The content of the objective involves an election promise">>)
    ELSE IF HasRule(scopeViolations, "DEVIATION_FROM_SCOPE")
    THEN Return(<<"The poster deviated from the content of the election campaign, which includes the candidate's picture, biography, electoral vision, goals, or roles">>)
    ELSE IF HasRule(scopeViolations, "PREVIOUS_TERM_EXPLOITATION")
    THEN Return(<<"Cannot exploit the previous term achievements">>)
    ELSE IF IsMissingElement(required, "CANDIDATE_PHOTO")
               \/ IsMissingElement(required, "CANDIDATE_NAME")
    THEN Return(<<"Election campaigning is limited to the following: candidate photo, name, CV, and vision">>)
    ELSE Return(<<"Poster does not comply with election campaign regulations">>)

\* ------------------------------------------------------------------------
\* validateSchema: the ordered list of error strings
\* ------------------------------------------------------------------------
ErrIf(cond, msg) == IF cond THEN <<msg>> ELSE <<>>

validateSchema(result) ==
    ErrIf(~Has(result.isCompliant), "Missing isCompliant")
    \o ErrIf(~Has(result.overallScore), "Missing overallScore")
    \o ErrIf(~Has(result.summary) \/ result.summary = Some(""), "Missing summary")
    \o (IF ~Has(result.documentType) THEN <<"Missing documentType">>
        ELSE ErrIf(~Has(Get(result.documentType).isElectionPropaganda),
                   "Missing documentType.isElectionPropaganda")
             \o ErrIf(~Has(Get(result.documentType).actualType)
                          \/ Get(result.documentType).actualType = Some(""),
                      "Missing documentType.actualType"))
    \o (IF ~Has(result.categories) THEN <<"Missing categories">>
        ELSE ErrIf(~Has(Get(result.categories).prohibitedContent), "Missing prohibitedContent")
             \o ErrIf(~Has(Get(result.categories).requiredContent), "Missing requiredContent")
             \o ErrIf(~Has(Get(result.categories).contentScope), "Missing contentScope")
             \o ErrIf(~Has(Get(result.categories).languageEthics), "Missing languageEthics"))
    \o ErrIf(~Has(result.extractedText), "Missing extractedText")

\* ------------------------------------------------------------------------
\* fixNonElectionLogic
\* ------------------------------------------------------------------------
\* the object {} assigned to result.metadata when it has none
EmptyMetadata ==
    [ timestamp |-> None, modelUsed |-> None, hasAnalysisTrace |-> None,
      schemaValid |-> None, logicCorrectionApplied |-> None,
      correctionReason |-> None ]

\* `${x}` of an optional string
Interpolate(o) == IF Has(o) THEN Get(o) ELSE "undefined"

NonElectionStep4(result) ==
    << "Non-compliant because this is not election propaganda (",
       Interpolate(Get(result.documentType).actualType),
       "). It cannot be validated as an election poster." >>

\* A faulty variant of fixNonElectionLogic: the score is zeroed but the verdict
\* is left as the model gave it.
fixNonElectionLogic_VerdictKept(result) ==
    IF /\ Has(result.documentType)
       /\ Get(result.documentType).isElectionPropaganda = Some(FALSE)
       /\ result.isCompliant = Some(TRUE)
    THEN
      LET r1 == [result EXCEPT !.overallScore = Some(0)]
          r2 == IF Has(r1.analysis_trace)
                THEN [r1 EXCEPT !.analysis_trace =
                        Some([Get(r1.analysis_trace) EXCEPT
                                !.step4_decision_logic = Some(NonElectionStep4(r1))])]
                ELSE r1
          r3 == IF ~TruthyStr(r2.rejectionReason)
                THEN [r2 EXCEPT !.rejectionReason =
                        Some(generateRejectionReason(r2).value)]
                ELSE r2
          md == IF Has(r3.metadata) THEN Get(r3.metadata) ELSE EmptyMetadata
      IN [r3 EXCEPT !.metadata =
             Some([md EXCEPT
                     !.logicCorrectionApplied = Some(TRUE),
                     !.correctionReason =
                        Some("Non-election material incorrectly marked as compliant")])]
    ELSE result

fixNonElectionLogic(result) ==
    IF /\ Has(result.documentType)
       /\ Get(result.documentType).isElectionPropaganda = Some(FALSE)
       /\ result.isCompliant = Some(TRUE)
    THEN
      LET r1 == [result EXCEPT !.isCompliant = Some(FALSE),
                               !.overallScore = Some(0)]
          r2 == IF Has(r1.analysis_trace)
                THEN [r1 EXCEPT !.analysis_trace =
                        Some([Get(r1.analysis_trace) EXCEPT
                                !.step4_decision_logic = Some(NonElectionStep4(r1))])]
                ELSE r1
          r3 == IF ~TruthyStr(r2.rejectionReason)
                THEN [r2 EXCEPT !.rejectionReason =
                        Some(generateRejectionReason(r2).value)]
                ELSE r2
          md == IF Has(r3.metadata) THEN Get(r3.metadata) ELSE EmptyMetadata
      IN [r3 EXCEPT !.metadata =
             Some([md EXCEPT
                     !.logicCorrectionApplied = Some(TRUE),
                     !.correctionReason =
                        Some("Non-election material incorrectly marked as compliant")])]
    ELSE result

\* ------------------------------------------------------------------------
\* validateNumberDetection
\* ------------------------------------------------------------------------
\* result.extractedText?.rawText || ""
RawText(result) ==
    IF Has(result.extractedText) /\ Has(Get(result.extractedText).rawText)
    THEN Get(Get(result.extractedText).rawText)
    ELSE <<>>

IsCandidateNumber(item) == item.rule = "CANDIDATE_NUMBER"

FalsePositiveWarning(item) ==
    [ type |-> "POSSIBLE_FALSE_POSITIVE", rule |-> "CANDIDATE_NUMBER",
      message |-> "Number detection may be false positive (phone/date/age). Verify context.",
      details |-> item.details, confidence |-> 60 ]

MissingContextWarning ==
    [ type |-> "MISSING_CONTEXT", rule |-> "CANDIDATE_NUMBER",
      message |-> "Number flagged but missing candidate-number context. May be phone/date/age.",
      details |-> None, confidence |-> 70 ]

\* the warnings pushed by the loop over falsePositivePatterns: one warning at
\* the first pattern that matches details or extractedText, then break
falsePositiveLoop(item, details, extractedText) ==
    IF \E k \in 1..5 :
          falsePositivePatterns(details)[k] \/ falsePositivePatterns(extractedText)[k]
    THEN <<FalsePositiveWarning(item)>>
    ELSE <<>>

\* A faulty variant of missingContextCheck: the context is looked at only when no
\* false-positive pattern matched.
missingContextCheck_OnlyWithoutFalsePositive(item, details, extractedText) ==
    IF /\ falsePositiveLoop(item, details, extractedText) = <<>>
       /\ ~hasCandidateContext(extractedText)
    THEN <<MissingContextWarning>>
    ELSE <<>>

\* the warning pushed when the raw text has no candidate-number phrase
missingContextCheck(item, details, extractedText) ==
    IF ~hasCandidateContext(extractedText) THEN <<MissingContextWarning>> ELSE <<>>

\* if (!result.warnings) result.warnings = []; result.warnings.push(...ws)
PushWarnings(result, ws) ==
    IF ws = <<>> THEN result
    ELSE [result EXCEPT !.warnings =
            Some((IF Has(result.warnings) THEN Get(result.warnings) ELSE <<>>) \o ws)]

\* A faulty variant of validateNumberDetection: a finding that looks like a
\* false positive is taken out of the prohibited-content items.
validateNumberDetection_DropsFinding(result) ==
    LET candidateNumberItem ==
            Find(ItemsOrEmpty(Category(result, "prohibitedContent")), IsCandidateNumber)
        item == Get(candidateNumberItem)
        details == IF Has(item.details) THEN toLowerCase(Get(item.details)) ELSE <<>>
        extractedText == toLowerCase(RawText(result))
        pushed == PushWarnings(
                      PushWarnings(result, falsePositiveLoop(item, details, extractedText)),
                      missingContextCheck(item, details, extractedText))
    IN IF Has(candidateNumberItem) /\ TruthyBool(item.found)
       THEN IF falsePositiveLoop(item, details, extractedText) = <<>> THEN pushed
            ELSE [pushed EXCEPT !.categories =
                    Some([Get(@) EXCEPT !.prohibitedContent =
                            Some([Get(@) EXCEPT !.items =
                                    Some(SelectSeq(Get(@),
                                                   LAMBDA i : ~IsCandidateNumber(i)))])])]
       ELSE result

validateNumberDetection(result) ==
    LET candidateNumberItem ==
            Find(ItemsOrEmpty(Category(result, "prohibitedContent")), IsCandidateNumber)
        item == Get(candidateNumberItem)
        details == IF Has(item.details) THEN toLowerCase(Get(item.details)) ELSE <<>>
        extractedText == toLowerCase(RawText(result))
    IN IF Has(candidateNumberItem) /\ TruthyBool(item.found)
       THEN PushWarnings(
                PushWarnings(result, falsePositiveLoop(item, details, extractedText)),
                missingContextCheck(item, details, extractedText))
       ELSE result

\* ------------------------------------------------------------------------
\* flagDeterministicViolation
\* ------------------------------------------------------------------------
\* the object {} assigned to result.categories when it has none
EmptyCategories ==
    [ prohibitedContent |-> None, requiredContent |-> None,
      contentScope |-> None, languageEthics |-> None ]

\* item.violatingObjectives?.[0]
FirstObjective(item) ==
    IF Has(item.violatingObjectives) /\ Get(item.violatingObjectives) # <<>>
    THEN Some(Get(item.violatingObjectives)[1])
    ELSE None

EnforcementNote(violationData) ==
    << " [System enforced violation: ", violationData.explanation, "]" >>

\* A faulty variant of flagRejectionReason: the message is appended to a
\* non-empty reason without looking for it there first.
flagRejectionReason_AlwaysAppend(rejectionReason, rejectionMsg) ==
    IF ~TruthyStr(rejectionReason) THEN Some(<<rejectionMsg>>)
    ELSE Some(Get(rejectionReason) \o <<" | ", rejectionMsg>>)

\* step 2 of the routine: set, or append with the separator unless the
\* message is already contained
flagRejectionReason(rejectionReason, rejectionMsg) ==
    IF ~TruthyStr(rejectionReason) THEN Some(<<rejectionMsg>>)
    ELSE IF ~Includes(Get(rejectionReason), <<rejectionMsg>>)
    THEN Some(Get(rejectionReason) \o <<" | ", rejectionMsg>>)
    ELSE rejectionReason

\* the duplicate test of step 3
violationExists(items, violationData) ==
    \E i \in 1..Len(items) :
        /\ items[i].rule = violationData.rule
        /\ FirstObjective(items[i]) = Some(violationData.violatingObjectives[1])

flagDeterministicViolation(result, violationData, rejectionMsg) ==
    LET r1 == [result EXCEPT
                 !.isCompliant = Some(FALSE),
                 !.overallScore = Some(0),
                 !.rejectionReason = flagRejectionReason(@, rejectionMsg)]
        cats == IF Has(r1.categories) THEN Get(r1.categories) ELSE EmptyCategories
        scope == IF Has(cats.contentScope) THEN Get(cats.contentScope)
                 ELSE [status |-> Some("fail"), items |-> Some(<<>>)]
        r3 == [r1 EXCEPT !.categories = Some([cats EXCEPT !.contentScope = Some(scope)])]
        newItem == [ rule |-> violationData.rule, violated |-> Some(TRUE),
                     confidence |-> Some(100),
                     violatingObjectives |-> Some(violationData.violatingObjectives),
                     explanation |-> Some(violationData.explanation) ]
        scope4 == IF violationExists(Get(scope.items), violationData) THEN scope
                  ELSE [status |-> Some("fail"),
                        items |-> Some(Append(Get(scope.items), newItem))]
        r4 == [r3 EXCEPT !.categories = Some([cats EXCEPT !.contentScope = Some(scope4)])]
        trace == Get(r4.analysis_trace)
        step4 == (IF Has(trace.step4_decision_logic)
                  THEN Get(trace.step4_decision_logic) ELSE <<"undefined">>)
                 \o EnforcementNote(violationData)
    IN IF ~Has(scope.items)
       THEN Throw("Cannot read properties of undefined (reading 'some')", r3)
       ELSE IF Has(r4.analysis_trace)
       THEN Return([r4 EXCEPT !.analysis_trace =
                      Some([trace EXCEPT !.step4_decision_logic = Some(step4)])])
       ELSE Return(r4)

\* ------------------------------------------------------------------------
\* validateTextContent
\* ------------------------------------------------------------------------
\* one pattern check of validateTextContent, applied to the outcome so far
textCheck(outcome, text, End(_, _), rule, explanation, rejectionMsg) ==
    IF outcome.threw \/ ~Test(text, End) THEN outcome
    ELSE flagDeterministicViolation(
             outcome.value,
             [ rule |-> rule, violatingObjectives |-> <<Match0(text, End)>>,
               explanation |-> explanation ],
             rejectionMsg)

validateTextContent(result) ==
    LET text == RawText(result)
        o1 == textCheck(Return(result), text, jobSeekerEnd,
                        "OBJECTIVES_OUTSIDE_POWERS", JobSeekerExplanation, JobSeekerMsg)
        o2 == textCheck(o1, text, completeServiceEnd,
                        "OBJECTIVES_OUTSIDE_POWERS", CompleteServiceExplanation,
                        CompleteServiceMsg)
    IN textCheck(o2, text, seekObtainEnd,
                 "ELECTION_PROMISES", SeekObtainExplanation, SeekObtainMsg)

\* ------------------------------------------------------------------------
\* calculateConfidence
\* ------------------------------------------------------------------------
RECURSIVE SumSeq(_)
SumSeq(s) == IF s = <<>> THEN 0 ELSE Head(s) + SumSeq(Tail(s))

HasConfidence(item) == Has(item.confidence) /\ Get(item.confidence) # 0

ConfidenceOf(items) ==
    LET kept == Filter(items, HasConfidence)
    IN [i \in 1..Len(kept) |-> Get(kept[i].confidence)]

\* The mean of the collected confidences as the pair <<sum, count>>, the
\* value 85 of an empty collection as <<85, 1>>.
getAverageItemConfidence(result) ==
    LET confidences ==
            ConfidenceOf(ItemsOrEmpty(Category(result, "prohibitedContent")))
            \o ConfidenceOf(ItemsOrEmpty(Category(result, "contentScope")))
    IN IF Len(confidences) = 0 THEN <<85, 1>>
       ELSE <<SumSeq(confidences), Len(confidences)>>

\* sum / count < x
MeanBelow(avg, x) == avg[1] < x * avg[2]

Max2(a, b) == IF a >= b THEN a ELSE b

Min2(a, b) == IF a <= b THEN a ELSE b

\* A faulty variant of calculateConfidence: the penalty for a low mean item
\* confidence is 20 and the result is returned without the clamp.
calculateConfidence_UnclampedPenalty20(result) ==
    LET trace == Get(result.analysis_trace)
        c0 == 90
        c1 == IF \/ ~Has(trace.step1_content_extraction)
                 \/ Get(trace.step1_content_extraction) = ""
                 \/ Get(trace.step1_content_extraction) = NotProvided
              THEN c0 - 20 ELSE c0
        c2 == IF /\ \/ ~Has(trace.step3_violations_found)
                    \/ Len(Get(trace.step3_violations_found)) = 0
                 /\ ~TruthyBool(result.isCompliant)
              THEN c1 - 10 ELSE c1
        c3 == IF /\ Has(result.documentType)
                 /\ Has(Get(result.documentType).reasoning)
                 /\ Get(Get(result.documentType).reasoning) > 20
              THEN c2 + 5 ELSE c2
        c4 == IF MeanBelow(getAverageItemConfidence(result), 70)
              THEN c3 - 20 ELSE c3
    IN c4

calculateConfidence(result) ==
    LET trace == Get(result.analysis_trace)
        c0 == 90
        c1 == IF \/ ~Has(trace.step1_content_extraction)
                 \/ Get(trace.step1_content_extraction) = ""
                 \/ Get(trace.step1_content_extraction) = NotProvided
              THEN c0 - 20 ELSE c0
        c2 == IF /\ \/ ~Has(trace.step3_violations_found)
                    \/ Len(Get(trace.step3_violations_found)) = 0
                 /\ ~TruthyBool(result.isCompliant)
              THEN c1 - 10 ELSE c1
        c3 == IF /\ Has(result.documentType)
                 /\ Has(Get(result.documentType).reasoning)
                 /\ Get(Get(result.documentType).reasoning) > 20
              THEN c2 + 5 ELSE c2
        c4 == IF MeanBelow(getAverageItemConfidence(result), 70)
              THEN c3 - 10 ELSE c3
    IN Max2(50, Min2(100, c4))

\* ------------------------------------------------------------------------
\* validateAndEnrichResult(result), called at time now
\* ------------------------------------------------------------------------
PlaceholderTrace ==
    [ step1_content_extraction |-> Some(NotProvided),
      step2_document_type |-> Some(NotProvided),
      step3_violations_found |-> Some(<<>>),
      step4_decision_logic |-> Some(<<NotProvided>>) ]

\* A faulty variant of attachSchemaValidation: the object is attached in both cases.
attachSchemaValidation_Always(result, validationErrors) ==
    [result EXCEPT !.schemaValidation =
        Some([valid |-> Len(validationErrors) = 0, errors |-> validationErrors])]

\* step 1: attach schemaValidation when the error list is not empty
attachSchemaValidation(result, validationErrors) ==
    IF Len(validationErrors) > 0
    THEN [result EXCEPT !.schemaValidation =
            Some([valid |-> FALSE, errors |-> validationErrors])]
    ELSE result

\* A faulty variant of ensureRejectionReason: the reason is generated only when the
\* property is undefined, so an empty string is left in place.
ensureRejectionReason_OnlyWhenUndefined(result) ==
    LET reason == generateRejectionReason(result)
    IN IF ~TruthyBool(result.isCompliant) /\ ~Has(result.rejectionReason)
       THEN IF reason.threw THEN Throw(reason.error, result)
            ELSE Return([result EXCEPT !.rejectionReason = Some(reason.value)])
       ELSE Return(result)

\* step 6: a rejection reason is generated when the result is not compliant
\* and has none
ensureRejectionReason(result) ==
    LET reason == generateRejectionReason(result)
    IN IF ~TruthyBool(result.isCompliant) /\ ~TruthyStr(result.rejectionReason)
       THEN IF reason.threw THEN Throw(reason.error, result)
            ELSE Return([result EXCEPT !.rejectionReason = Some(reason.value)])
       ELSE Return(result)

\* step 7: the metadata object assigned to result.metadata
stampMetadata(result, validationErrors, now) ==
    [result EXCEPT !.metadata =
        Some([ timestamp |-> Some(now),
               modelUsed |-> Some(ModelUsed),
               hasAnalysisTrace |->
                   Some(/\ Has(Get(result.analysis_trace).step1_content_extraction)
                        /\ Get(Get(result.analysis_trace).step1_content_extraction) # ""),
               schemaValid |-> Some(Len(validationErrors) = 0),
               logicCorrectionApplied |-> None,
               correctionReason |-> None ])]

\* A faulty variant of ensureAnalysisTrace: the placeholder is assigned
\* whether or not the result has a trace.
ensureAnalysisTrace_Always(result) ==
    [result EXCEPT !.analysis_trace = Some(PlaceholderTrace)]

\* step 3: the placeholder trace of a result that has none
ensureAnalysisTrace(result) ==
    IF ~Has(result.analysis_trace)
    THEN [result EXCEPT !.analysis_trace = Some(PlaceholderTrace)]
    ELSE result

\* step 5: result.validationConfidence = this.calculateConfidence(result)
attachConfidence(result) ==
    [result EXCEPT !.validationConfidence = Some(calculateConfidence(result))]

\* step 7 and the return, reached unless step 6 raised
enrichAfterReason(outcome, validationErrors, now) ==
    IF outcome.threw THEN outcome
    ELSE Return(stampMetadata(outcome.value, validationErrors, now))

\* steps 5 to 7, reached unless validateTextContent raised
enrichAfterTextContent(outcome, validationErrors, now) ==
    IF outcome.threw THEN outcome
    ELSE enrichAfterReason(ensureRejectionReason(attachConfidence(outcome.value)),
                           validationErrors, now)

\* the steps of validateAndEnrichResult in order, validationErrors being the
\* list validateSchema returned for the incoming result
enrichResult(result, validationErrors, now) ==
    enrichAfterTextContent(
        validateTextContent(
            validateNumberDetection(
                ensureAnalysisTrace(
                    fixNonElectionLogic(
                        attachSchemaValidation(result, validationErrors))))),
        validationErrors, now)

validateAndEnrichResult(result, now) ==
    enrichResult(result, validateSchema(result), now)

\* ------------------------------------------------------------------------
\* The external model's reply to one chat-completion call
\*   kind = "connection_error", "timeout": the call is rejected
\*   kind = "malformed": the reply text is not JSON
\*   kind = "null": the reply text is the JSON value null
\*   kind = "object": the reply text encodes the object obj
\* ------------------------------------------------------------------------
ReplyErrorMessage(reply) ==
    CASE reply.kind = "connection_error" -> "Connection error."
      [] reply.kind = "timeout" -> "Request timed out."
      [] reply.kind = "malformed" -> "Unexpected token in JSON at position 0"
      [] reply.kind = "null" -> "Cannot read properties of null (reading '_analysis_trace')"
      [] OTHER -> ""

\* performAIAnalysis: one call of openai.chat.completions.create, then
\* JSON.parse of the reply text and the read of result._analysis_trace.
\* calls counts the external calls made.
performAIAnalysis(reply) ==
    IF reply.kind = "object"
    THEN [threw |-> FALSE, value |-> reply.obj, error |-> "", calls |-> 1]
    ELSE [threw |-> TRUE, value |-> reply.obj, error |-> ReplyErrorMessage(reply),
          calls |-> 1]

\* the object returned by the catch block of validatePoster
TechnicalErrorResult(message) ==
    [ isCompliant |-> Some(FALSE),
      overallScore |-> Some(0),
      summary |-> Some("Validation failed due to technical error"),
      rejectionReason |-> Some(<<"Technical error: ", message>>),
      error |-> Some(message),
      analysis_trace |->
          Some([ step1_content_extraction |-> Some("Error occurred"),
                 step2_document_type |-> Some("Could not analyze"),
                 step3_violations_found |-> Some(<<>>),
                 step4_decision_logic |-> Some(<<"System error">>) ]),
      documentType |-> None, imageQuality |-> None, categories |-> None,
      extractedText |-> None, warnings |-> None, validationConfidence |-> None,
      metadata |-> None, schemaValidation |-> None ]

\* A faulty variant of validatePoster: validateAndEnrichResult is called outside the
\* try block.
validatePoster_ReconcileOutsideTry(reply, now) ==
    LET aiResult == performAIAnalysis(reply)
        validatedResult == validateAndEnrichResult(aiResult.value, now)
    IN IF aiResult.threw
       THEN [threw |-> FALSE, value |-> TechnicalErrorResult(aiResult.error),
             calls |-> aiResult.calls]
       ELSE [threw |-> validatedResult.threw, value |-> validatedResult.value,
             calls |-> aiResult.calls]

\* validatePoster: the try block and its catch.  threw is whether the call
\* itself raised, value what it returned, calls the external calls it made.
validatePosterTry(aiResult, validatedResult) ==
    IF validatedResult.threw
    THEN [threw |-> FALSE, value |-> TechnicalErrorResult(validatedResult.error),
          calls |-> aiResult.calls]
    ELSE [threw |-> FALSE, value |-> validatedResult.value,
          calls |-> aiResult.calls]

validatePosterCatch(aiResult, now) ==
    IF aiResult.threw
    THEN [threw |-> FALSE, value |-> TechnicalErrorResult(aiResult.error),
          calls |-> aiResult.calls]
    ELSE validatePosterTry(aiResult, validateAndEnrichResult(aiResult.value, now))

validatePoster(reply, now) == validatePosterCatch(performAIAnalysis(reply), now)

\* analyzePoster of ai.service.js: one external call, the reply text returned
\* unparsed.  value is the reply, standing for its text.
analyzePoster(reply) ==
    IF reply.kind \in {"connection_error", "timeout"}
    THEN [threw |-> TRUE, value |-> reply, error |-> ReplyErrorMessage(reply), calls |-> 1]
    ELSE [threw |-> FALSE, value |-> reply, error |-> "", calls |-> 1]

\* The POST /api/validate handler.  request.hasFile: the multipart request
\* carries a file part; request.ocrOk: performArabicOCR succeeds on it.
\* The response is what Fastify sends: the body given to reply.send with the
\* default status 200, or, when the handler's promise rejects, the default
\* error reply with status 500 (unhandled = TRUE).
ErrorReply(message) ==
    [unhandled |-> TRUE, statusCode |-> 500, message |-> message, body |-> None,
     calls |-> 0]

postApiValidate(request, reply) ==
    LET result == analyzePoster(reply)
    IN IF ~request.hasFile
       THEN ErrorReply("Cannot read properties of undefined (reading 'toBuffer')")
       ELSE IF ~request.ocrOk
       THEN ErrorReply("Input buffer contains unsupported image format")
       ELSE IF result.threw
       THEN [ErrorReply(result.error) EXCEPT !.calls = result.calls]
       ELSE IF reply.kind = "malformed"
       THEN [ErrorReply("Unexpected token in JSON at position 0") EXCEPT
                !.calls = result.calls]
       ELSE [unhandled |-> FALSE, statusCode |-> 200, message |-> "",
             body |-> IF reply.kind = "null" THEN None ELSE Some(reply.obj),
             calls |-> result.calls]

\* ------------------------------------------------------------------------
\* State
\* ------------------------------------------------------------------------
VARIABLES
    reply,      \* the external model's reply to this request's call
    phase,      \* "start", then "once", "twice", "poster" or "http"
    first,      \* outcome of validateAndEnrichResult on the reply's object
    second,     \* outcome of validateAndEnrichResult on the result of first
    poster,     \* outcome of validatePoster
    response,   \* response of POST /api/validate
    apiCalls,   \* calls of openai.chat.completions.create made
    clock       \* the time of the latest Date()

vars == <<reply, phase, first, second, poster, response, apiCalls, clock>>

\* ------------------------------------------------------------------------
\* Bounds of the model
\* ------------------------------------------------------------------------
\* longest raw text, in phrases
MaxPhrases == 2

\* longest list of rule-check items in the model's reply
MaxItems == 2

\* ------------------------------------------------------------------------
\* The replies the external model may give
\* ------------------------------------------------------------------------
OptBool == {None, Some(TRUE), Some(FALSE)}

\* sequences over S of length at most n
SeqsUpTo(S, n) == UNION { [1..k -> S] : k \in 0..n }

\* the texts made of at most n phrases of P, separated by spaces
RECURSIVE TextsOf(_, _)
TextsOf(P, n) ==
    IF n = 0 THEN { <<>> }
    ELSE LET prev == TextsOf(P, n - 1)
         IN prev \cup { (IF t = <<>> THEN t ELSE t \o <<" ">>) \o p : t \in prev, p \in P }

\* phrases of the deterministic text rules, a plain word and a line break
ViolationPhrases ==
    { <<"milaf", " ", "albahithin">>,
      <<"daman">>,
      <<"khadamat">>,
      <<"saasaa", " ", "ala", " ", "husul">>,
      <<"\n">> }

\* phrases of the number heuristics: the candidate-number phrase with the
\* number 18, an 8-digit contact number, an age, a plain word
NumberPhrases ==
    { <<"raqm", " ", "almurashah", " ", "1", "8">>,
      <<"9", "9", "8", "8", "7", "7", "6", "6">>,
      <<"sana">>,
      <<"3", "5">>,
      <<"w">> }

RealTrace ==
    [ step1_content_extraction |-> Some("Found: candidate photo, name"),
      step2_document_type |-> Some("This IS election propaganda"),
      step3_violations_found |-> Some(<<"CANDIDATE_NUMBER at center">>),
      step4_decision_logic |-> Some(<<"Model decision">>) ]

Traces ==
    { None,
      Some(RealTrace),
      Some([RealTrace EXCEPT !.step3_violations_found = Some(<<>>)]),
      Some([RealTrace EXCEPT !.step1_content_extraction = None,
                             !.step3_violations_found = None,
                             !.step4_decision_logic = None]),
      Some([RealTrace EXCEPT !.step1_content_extraction = Some("")]),
      Some(PlaceholderTrace) }

Category0(items) == Some([status |-> Some("pass"), items |-> items])

\* a complete reply for a compliant election poster
Base ==
    [ isCompliant |-> Some(TRUE),
      overallScore |-> Some(85),
      summary |-> Some("Compliant poster"),
      rejectionReason |-> None,
      error |-> None,
      documentType |->
          Some([ isElectionPropaganda |-> Some(TRUE),
                 actualType |-> Some("election_poster"),
                 reasoning |-> Some(30) ]),
      imageQuality |-> Some([isAcceptable |-> Some(TRUE), issues |-> Some(<<>>)]),
      categories |->
          Some([ prohibitedContent |-> Category0(Some(<<>>)),
                 requiredContent |-> Category0(Some(<<>>)),
                 contentScope |-> Category0(Some(<<>>)),
                 languageEthics |-> Category0(Some(<<>>)) ]),
      extractedText |-> Some([rawText |-> Some(<<"w">>)]),
      analysis_trace |-> Some(RealTrace),
      warnings |-> None,
      validationConfidence |-> None,
      metadata |-> None,
      schemaValidation |-> None ]

WithText(r, t) == [r EXCEPT !.extractedText = Some([rawText |-> Some(t)])]

WithProhibited(r, items) ==
    [r EXCEPT !.categories =
        Some([Get(r.categories) EXCEPT !.prohibitedContent = Category0(Some(items))])]

WithScope(r, items) ==
    [r EXCEPT !.categories =
        Some([Get(r.categories) EXCEPT !.contentScope = Category0(Some(items))])]

WithRequired(r, items) ==
    [r EXCEPT !.categories =
        Some([Get(r.categories) EXCEPT !.requiredContent = Category0(Some(items))])]

ProhibitedItem(rule, found, confidence, details) ==
    [rule |-> rule, found |-> found, confidence |-> confidence, details |-> details]

ScopeItem(rule, violated, confidence, objectives) ==
    [ rule |-> rule, violated |-> violated, confidence |-> confidence,
      violatingObjectives |-> objectives, explanation |-> Some("Model explanation") ]

DocTypes ==
    { None }
    \cup { Some([isElectionPropaganda |-> e, actualType |-> a, reasoning |-> Some(30)]) :
             e \in OptBool, a \in {None, Some("training_ad"), Some("news_article")} }

Reasons == { None, Some(<<>>), Some(<<"Model reason">>) }

ObjectReply(o) == [kind |-> "object", obj |-> o]

\* verdict fields against document type, raw text and trace
VerdictReplies ==
    \E c \in OptBool, s \in {Some(0), Some(40)}, rr \in Reasons, d \in DocTypes,
       t \in TextsOf(ViolationPhrases, 1), tr \in {None, Some(RealTrace)} :
        reply = ObjectReply(
                  [WithText(Base, t) EXCEPT
                      !.isCompliant = c, !.overallScore = s, !.rejectionReason = rr,
                      !.documentType = d, !.analysis_trace = tr])

\* content-scope items the model may report itself
ScopeItems ==
    { ScopeItem("OBJECTIVES_OUTSIDE_POWERS", v, Some(50),
                Some(<< <<"milaf", " ", "albahithin">> >>)) : v \in {Some(TRUE), Some(FALSE)} }
    \cup { ScopeItem("ELECTION_PROMISES", Some(FALSE), Some(100), None) }

ScopeCategories ==
    { None, Some([status |-> Some("pass"), items |-> None]) }
    \cup { Category0(Some(items)) : items \in SeqsUpTo(ScopeItems, MaxItems) }

TextVerdicts ==
    [ c : {Some(TRUE), Some(FALSE)}, rr : {None, Some(<<"Model reason">>)},
      tr : {None, Some(RealTrace)} ]

\* raw texts against the model's own content-scope findings
TextReplies ==
    \/ \E v \in TextVerdicts, t \in TextsOf(ViolationPhrases, MaxPhrases),
          sc \in ScopeCategories :
           reply = ObjectReply(
                     [WithText(Base, t) EXCEPT
                         !.isCompliant = v.c, !.rejectionReason = v.rr,
                         !.analysis_trace = v.tr,
                         !.categories =
                             Some([Get(Base.categories) EXCEPT !.contentScope = sc])])
    \/ \E e \in {None, Some([rawText |-> None])}, cs \in {None, Base.categories} :
           reply = ObjectReply([Base EXCEPT !.extractedText = e, !.categories = cs])

NumberDetails ==
    { None,
      Some(<<"w">>),
      Some(<<"1", "/", "2", "/", "2", "4">>),
      Some(<<"liltawasul", " ", "9">>),
      Some(<<"ruya", " ", "2", "0", "4", "0">>) }

NumberItems ==
    { ProhibitedItem("CANDIDATE_NUMBER", f, Some(80), d) :
        f \in OptBool, d \in NumberDetails }

NumberItemLists ==
    { <<>> }
    \cup { <<i>> : i \in NumberItems }
    \cup { << ProhibitedItem("ELECTION_LOGO", Some(TRUE), Some(90), None), i >> :
             i \in NumberItems }
    \cup { << ProhibitedItem("CANDIDATE_NUMBER", Some(FALSE), Some(80), None),
              ProhibitedItem("CANDIDATE_NUMBER", Some(TRUE), Some(80), None) >> }

ExistingWarning ==
    [ type |-> "MODEL_WARNING", rule |-> "ARABIC_ONLY", message |-> "Model warning",
      details |-> None, confidence |-> 50 ]

\* number findings against raw texts holding numbers
NumberReplies ==
    \E t \in TextsOf(NumberPhrases, MaxPhrases), items \in NumberItemLists,
       w \in {None, Some(<<ExistingWarning>>)} :
        reply = ObjectReply(
                  [WithProhibited(WithText(Base, t), items) EXCEPT
                      !.isCompliant = Some(FALSE), !.overallScore = Some(40),
                      !.warnings = w])

\* presence of the fields validateSchema looks at
SchemaCategories ==
    { None }
    \cup { Some([ prohibitedContent |-> (IF p THEN Category0(Some(<<>>)) ELSE None),
                  requiredContent |-> (IF q THEN Category0(Some(<<>>)) ELSE None),
                  contentScope |-> (IF s THEN Category0(Some(<<>>)) ELSE None),
                  languageEthics |-> (IF l THEN Category0(Some(<<>>)) ELSE None) ]) :
             p \in BOOLEAN, q \in BOOLEAN, s \in BOOLEAN, l \in BOOLEAN }

SchemaReplies ==
    \E c \in {None, Some(FALSE)}, s \in {None, Some(0)},
       su \in {None, Some(""), Some("Summary")},
       d \in { None, Base.documentType,
               Some([isElectionPropaganda |-> None, actualType |-> None,
                     reasoning |-> None]) },
       cs \in SchemaCategories,
       e \in {None, Some([rawText |-> Some(<<"milaf", "albahithin">>)])} :
        reply = ObjectReply(
                  [Base EXCEPT
                      !.isCompliant = c, !.overallScore = s, !.summary = su,
                      !.documentType = d, !.categories = cs, !.extractedText = e])

\* confidences of the items, trace quality and reasoning length
ConfidenceItems ==
    { ProhibitedItem("STATE_EMBLEM", Some(FALSE), c, None) :
        c \in {None, Some(0), Some(60), Some(80)} }

ConfidenceReplies ==
    \E t \in { <<"w">>, <<"milaf", " ", "albahithin">> },
       items \in SeqsUpTo(ConfidenceItems, MaxItems),
       c \in OptBool, tr \in Traces, rs \in {None, Some(20), Some(21)} :
        reply = ObjectReply(
                  [WithProhibited(WithText(Base, t), items) EXCEPT
                      !.isCompliant = c, !.analysis_trace = tr,
                      !.documentType =
                          Some([Get(Base.documentType) EXCEPT !.reasoning = rs])])

\* findings that drive the synthesis of a rejection reason
ReasonItems ==
    { ProhibitedItem("CANDIDATE_NUMBER", Some(TRUE), Some(90), Some(<<"1", "8">>)),
      ProhibitedItem("ELECTION_LOGO", Some(TRUE), Some(90), None),
      ProhibitedItem("HISTORICAL_SYMBOLS", Some(TRUE), Some(90), Some(<<"Fort">>)),
      ProhibitedItem("HISTORICAL_SYMBOLS", Some(TRUE), Some(90), Some(<<"Gate">>)),
      ProhibitedItem("HISTORICAL_SYMBOLS", Some(TRUE), Some(90), Some(<<"w">>)),
      ProhibitedItem("HISTORICAL_SYMBOLS", Some(TRUE), Some(90), None),
      ProhibitedItem("PUBLIC_FIGURES", Some(TRUE), Some(90), None),
      ProhibitedItem("STATE_EMBLEM", Some(TRUE), Some(90), None),
      ProhibitedItem("NATIONAL_FLAG", Some(TRUE), Some(90), None),
      ProhibitedItem("NATIONAL_FLAG", Some(FALSE), Some(90), None) }

ImageQualities ==
    { None,
      Some([isAcceptable |-> Some(TRUE), issues |-> Some(<<>>)]),
      Some([isAcceptable |-> Some(FALSE), issues |-> Some(<<"blurry">>)]),
      Some([isAcceptable |-> Some(FALSE), issues |-> Some(<<"dark">>)]),
      Some([isAcceptable |-> Some(FALSE), issues |-> None]) }

ReasonScopeLists ==
    SeqsUpTo({ ScopeItem(rule, Some(TRUE), Some(90), None) :
                 rule \in { "OBJECTIVES_OUTSIDE_POWERS", "ELECTION_PROMISES",
                            "DEVIATION_FROM_SCOPE", "PREVIOUS_TERM_EXPLOITATION" } }
             \cup { ScopeItem("OBJECTIVES_OUTSIDE_POWERS", Some(FALSE), Some(90), None) },
             MaxItems)

ReasonDocTypes ==
    { Base.documentType,
      Some([isElectionPropaganda |-> Some(FALSE), actualType |-> Some("press_interview"),
            reasoning |-> Some(30)]),
      Some([isElectionPropaganda |-> None, actualType |-> Some("flyer"),
            reasoning |-> Some(30)]) }

RequiredLists ==
    { <<>>,
      << [element |-> "CANDIDATE_PHOTO", present |-> Some(FALSE)] >>,
      << [element |-> "CANDIDATE_PHOTO", present |-> Some(TRUE)],
         [element |-> "CANDIDATE_NAME", present |-> Some(FALSE)] >> }

ReasonReplies ==
    \/ \E items \in SeqsUpTo(ReasonItems, MaxItems), q \in ImageQualities,
          c \in {None, Some(FALSE)}, d \in ReasonDocTypes :
           reply = ObjectReply(
                     [WithProhibited(Base, items) EXCEPT
                         !.isCompliant = c, !.overallScore = Some(40),
                         !.imageQuality = q, !.documentType = d])
    \/ \E items \in SeqsUpTo(ReasonItems, 1), scope \in ReasonScopeLists,
          required \in RequiredLists :
           reply = ObjectReply(
                     [WithRequired(WithScope(WithProhibited(Base, items), scope),
                                   required) EXCEPT
                         !.isCompliant = Some(FALSE), !.overallScore = Some(40)])

\* replies that are no object: a rejected call, a text that is no JSON, null
FailedReplies ==
    \E k \in {"connection_error", "timeout", "malformed", "null"} :
        reply = [kind |-> k, obj |-> Base]

\* the replies of the model: reply is one of them
Replies ==
    \/ FailedReplies
    \/ VerdictReplies
    \/ TextReplies
    \/ NumberReplies
    \/ SchemaReplies
    \/ ConfidenceReplies
    \/ ReasonReplies

Requests == [hasFile : BOOLEAN, ocrOk : BOOLEAN]

NoOutcome == Return(Base)

NoPoster == [threw |-> FALSE, value |-> Base, calls |-> 0]

NoResponse ==
    [unhandled |-> FALSE, statusCode |-> 0, message |-> "", body |-> None, calls |-> 0]

Init ==
    /\ Replies
    /\ phase = "start"
    /\ first = NoOutcome
    /\ second = NoOutcome
    /\ poster = NoPoster
    /\ response = NoResponse
    /\ apiCalls = 0
    /\ clock = 0

\* validateAndEnrichResult applied to the parsed reply
Reconcile ==
    /\ phase = "start"
    /\ reply.kind = "object"
    /\ first' = validateAndEnrichResult(reply.obj, clock)
    /\ clock' = clock
    /\ phase' = "once"
    /\ UNCHANGED <<reply, second, poster, response, apiCalls>>

\* validateAndEnrichResult applied to the result it returned, in the same
\* millisecond as the first pass or later
ReconcileAgain ==
    /\ phase = "once"
    /\ ~first.threw
    /\ \E now \in {clock, clock + 1} :
          /\ second' = validateAndEnrichResult(first.value, now)
          /\ clock' = now
    /\ phase' = "twice"
    /\ UNCHANGED <<reply, first, poster, response, apiCalls>>

\* ValidationService.validatePoster
ValidatePoster ==
    /\ phase = "start"
    /\ poster' = validatePoster(reply, clock)
    /\ apiCalls' = apiCalls + validatePoster(reply, clock).calls
    /\ clock' = clock
    /\ phase' = "poster"
    /\ UNCHANGED <<reply, first, second, response>>

\* POST /api/validate
PostApiValidate ==
    /\ phase = "start"
    /\ \E request \in Requests :
          /\ response' = postApiValidate(request, reply)
          /\ apiCalls' = apiCalls + postApiValidate(request, reply).calls
    /\ phase' = "http"
    /\ UNCHANGED <<reply, first, second, poster, clock>>

\* the reconciler, applied once and again to its own result
Next == Reconcile \/ ReconcileAgain

Spec == Init /\ [][Next]_vars

\* the two entry points of the service
NextService == ValidatePoster \/ PostApiValidate

SpecService == Init /\ [][NextService]_vars

\* ------------------------------------------------------------------------
\* Properties
\* ------------------------------------------------------------------------
\* the object the model replied with, and the results of the two passes
raw == reply.obj

once == first.value

twice == second.value

ReturnedOnce == phase \in {"once", "twice"} /\ ~first.threw

ReturnedTwice == phase = "twice" /\ ~second.threw

NonElection(r) ==
    Has(r.documentType) /\ Get(r.documentType).isElectionPropaganda = Some(FALSE)

\* C1: every reply whose documentType.isElectionPropaganda is false comes out
\* of reconciliation with isCompliant false and overallScore 0, whatever the
\* incoming isCompliant and overallScore were.
C1_NonElectionRejected ==
    (ReturnedOnce /\ NonElection(raw)) =>
        (once.isCompliant = Some(FALSE) /\ once.overallScore = Some(0))

\* C2: a result returned by reconciliation with isCompliant false has a
\* rejectionReason that is neither absent nor empty, after the first pass and
\* after a pass over an already reconciled result.
C2_RejectionReasonPresent ==
    /\ (ReturnedOnce /\ once.isCompliant = Some(FALSE)) =>
           TruthyStr(once.rejectionReason)
    /\ (ReturnedTwice /\ twice.isCompliant = Some(FALSE)) =>
           TruthyStr(twice.rejectionReason)

\* C2 witness: a non-compliant reply without a reason left reconciliation
\* with the generic fallback message.
C2_Witness ==
    /\ ReturnedOnce
    /\ once.isCompliant = Some(FALSE)
    /\ ~TruthyStr(raw.rejectionReason)
    /\ once.rejectionReason =
          Some(<<"Poster does not comply with election campaign regulations">>)

\* a result with the time stamp of its metadata left out
WithoutTimestamp(r) ==
    IF Has(r.metadata)
    THEN [r EXCEPT !.metadata = Some([Get(r.metadata) EXCEPT !.timestamp = None])]
    ELSE r

\* C3: reconciliation is idempotent: a second pass over the result of the
\* first returns, and changes no field of it (the time stamp of the metadata
\* aside).
C3_Idempotent ==
    phase = "twice" =>
        (~second.threw /\ WithoutTimestamp(twice) = WithoutTimestamp(once))

\* the content-scope items of r for the rule, flagged with confidence 100,
\* whose first violating objective is the text m
InjectedItems(r, rule, m) ==
    LET items == ItemsOrEmpty(Category(r, "contentScope"))
    IN { i \in 1..Len(items) :
           /\ items[i].rule = rule
           /\ items[i].violated = Some(TRUE)
           /\ items[i].confidence = Some(100)
           /\ FirstObjective(items[i]) = Some(m) }

JobSeekerInjected(outcome) ==
    /\ ~outcome.threw
    /\ outcome.value.isCompliant = Some(FALSE)
    /\ outcome.value.overallScore = Some(0)
    /\ Cardinality(InjectedItems(outcome.value, "OBJECTIVES_OUTSIDE_POWERS",
                                 Match0(RawText(raw), jobSeekerEnd))) = 1

\* C4: when the raw text holds the job-seeker-file phrase, reconciliation
\* returns isCompliant false, overallScore 0 and exactly one
\* OBJECTIVES_OUTSIDE_POWERS item with violated true and confidence 100 for
\* the matched phrase, whatever the model reported; a second pass leaves
\* exactly one.
C4_JobSeekerInjected ==
    Test(RawText(raw), jobSeekerEnd) =>
        /\ phase \in {"once", "twice"} => JobSeekerInjected(first)
        /\ phase = "twice" => JobSeekerInjected(second)

TrainingAdMarkedCompliant(r) ==
    /\ NonElection(r)
    /\ Get(r.documentType).actualType = Some("training_ad")
    /\ r.isCompliant = Some(TRUE)
    /\ ~Has(r.rejectionReason)

\* C5: a training advertisement the model marked compliant comes out with
\* isCompliant false, overallScore 0, the training-course rejection reason
\* and metadata.logicCorrectionApplied true.
C5_TrainingAdCorrected ==
    (phase = "once" /\ TrainingAdMarkedCompliant(raw)) =>
        /\ ~first.threw
        /\ once.isCompliant = Some(FALSE)
        /\ once.overallScore = Some(0)
        /\ once.rejectionReason = Some(<<TrainingAdMsg>>)
        /\ Has(once.metadata)
        /\ Get(once.metadata).logicCorrectionApplied = Some(TRUE)

\* what fails upstream of the reconciled result: the external call, the
\* parsing of its reply, or a reconciliation step
UpstreamError ==
    IF reply.kind # "object" THEN ReplyErrorMessage(reply)
    ELSE validateAndEnrichResult(raw, clock).error

UpstreamFailed ==
    reply.kind # "object" \/ validateAndEnrichResult(raw, clock).threw

\* C6: validatePoster never throws and calls the external model exactly once;
\* when the call, the parsing of its reply or a reconciliation step fails, it
\* returns isCompliant false, overallScore 0, a rejectionReason holding the
\* error message and a placeholder trace with no violations listed.
C6_ValidatePosterNeverThrows ==
    phase = "poster" =>
        /\ ~poster.threw
        /\ poster.calls = 1
        /\ apiCalls = 1
        /\ UpstreamFailed =>
              /\ poster.value.isCompliant = Some(FALSE)
              /\ poster.value.overallScore = Some(0)
              /\ TruthyStr(poster.value.rejectionReason)
              /\ Includes(Get(poster.value.rejectionReason), <<UpstreamError>>)
              /\ Has(poster.value.analysis_trace)
              /\ Get(poster.value.analysis_trace).step3_violations_found = Some(<<>>)
              /\ Get(poster.value.analysis_trace).step1_content_extraction
                    = Some("Error occurred")

\* C6 witness: the model replied with an object, a reconciliation step raised,
\* and validatePoster returned the technical-error result.
C6_Witness ==
    /\ phase = "poster"
    /\ reply.kind = "object"
    /\ validateAndEnrichResult(raw, clock).threw
    /\ poster.value.error = Some(validateAndEnrichResult(raw, clock).error)
    /\ apiCalls = 1

\* C7: every request to POST /api/validate is answered with a success-shaped
\* body, and when an upstream step failed (OCR, the external call, the
\* parsing of the reply) the body carries isCompliant false and a reason; no
\* failure reaches the HTTP layer as an unhandled exception.
C7_HandlerNeverFails ==
    phase = "http" =>
        /\ ~response.unhandled
        /\ response.statusCode = 200
        /\ (response.message # "" \/ reply.kind # "object") =>
              /\ Has(response.body)
              /\ Get(response.body).isCompliant = Some(FALSE)
              /\ TruthyStr(Get(response.body).rejectionReason)

\* C8: after reconciliation validationConfidence is an integer in [50, 100].
C8_ConfidenceBounds ==
    /\ ReturnedOnce =>
          /\ Has(once.validationConfidence)
          /\ Get(once.validationConfidence) \in 50..100
    /\ ReturnedTwice =>
          /\ Has(twice.validationConfidence)
          /\ Get(twice.validationConfidence) \in 50..100

\* C8 witness: every penalty applies (placeholder trace, non-compliant with no
\* violations listed, short reasoning, mean item confidence below 70) and the
\* confidence is the lower bound.
C8_Witness ==
    /\ ReturnedOnce
    /\ ~Has(raw.analysis_trace)
    /\ once.isCompliant = Some(FALSE)
    /\ MeanBelow(getAverageItemConfidence(once), 70)
    /\ once.validationConfidence = Some(50)

\* C9 as stated: after the schema check the result always carries a
\* schemaValidation object whose valid flag tells whether the error list is
\* empty, and metadata.schemaValid equals it.
C9_SchemaValidationAlwaysAttached ==
    ReturnedOnce =>
        /\ Has(once.schemaValidation)
        /\ Get(once.schemaValidation).valid = (validateSchema(raw) = <<>>)
        /\ Get(once.metadata).schemaValid = Some(validateSchema(raw) = <<>>)

\* the schema step of a pass from result before to outcome after
SchemaStepOnErrorsOnly(before, after) ==
    /\ validateSchema(before) # <<>> =>
          after.value.schemaValidation =
              Some([valid |-> FALSE, errors |-> validateSchema(before)])
    /\ validateSchema(before) = <<>> =>
          after.value.schemaValidation = before.schemaValidation
    /\ ~after.threw =>
          Get(after.value.metadata).schemaValid = Some(validateSchema(before) = <<>>)

\* C9 amended: a non-empty error list is attached as schemaValidation with
\* valid false; an empty one leaves schemaValidation as it was (absent for a
\* reply that carried none, never valid true); metadata.schemaValid tells in
\* both cases whether the list was empty.
C9_SchemaValidationOnErrorsOnly ==
    /\ phase \in {"once", "twice"} => SchemaStepOnErrorsOnly(raw, first)
    /\ phase = "twice" => SchemaStepOnErrorsOnly(once, second)

\* C9 witness: a complete reply is returned without schemaValidation and with
\* metadata.schemaValid true.
C9_Witness ==
    /\ ReturnedOnce
    /\ validateSchema(raw) = <<>>
    /\ ~Has(once.schemaValidation)
    /\ Get(once.metadata).schemaValid = Some(TRUE)

\* the warnings of type ty in an optional warnings list
WarningsOfType(ws, ty) ==
    IF Has(ws) THEN { i \in 1..Len(Get(ws)) : Get(ws)[i].type = ty } ELSE {}

\* the warnings of type ty that the pass from before to after added
Added(before, after, ty) ==
    Cardinality(WarningsOfType(after.warnings, ty))
        - Cardinality(WarningsOfType(before.warnings, ty))

\* the CANDIDATE_NUMBER item of the prohibited-content items, if any
NumberItem(r) ==
    Find(ItemsOrEmpty(Category(r, "prohibitedContent")), IsCandidateNumber)

NumberFound(r) == Has(NumberItem(r)) /\ TruthyBool(Get(NumberItem(r)).found)

NumberDetailsText(r) ==
    IF Has(Get(NumberItem(r)).details) THEN Get(Get(NumberItem(r)).details) ELSE <<>>

AnyFalsePositivePattern(r) ==
    \/ PhonePattern(NumberDetailsText(r)) \/ PhonePattern(RawText(r))
    \/ DatePattern(NumberDetailsText(r)) \/ DatePattern(RawText(r))
    \/ AgePattern(NumberDetailsText(r)) \/ AgePattern(RawText(r))
    \/ ContactPattern(NumberDetailsText(r)) \/ ContactPattern(RawText(r))
    \/ VisionPattern(NumberDetailsText(r)) \/ VisionPattern(RawText(r))

Bit(b) == IF b THEN 1 ELSE 0

AllOfConfidence(ws, ty, c) ==
    \A i \in WarningsOfType(ws, ty) : Get(ws)[i].confidence = c

\* C10: with CANDIDATE_NUMBER found, one POSSIBLE_FALSE_POSITIVE warning
\* (confidence 60) is appended exactly when one of the five patterns matches
\* the details or the raw text, and one MISSING_CONTEXT warning (confidence
\* 70) exactly when the raw text has neither variant of the candidate-number
\* phrase, each decided on its own; without a found CANDIDATE_NUMBER item the
\* warnings are left as they were; the warnings already there are kept.
C10_NumberWarnings ==
    phase = "once" =>
        /\ Added(raw, once, "POSSIBLE_FALSE_POSITIVE")
              = Bit(NumberFound(raw) /\ AnyFalsePositivePattern(raw))
        /\ Added(raw, once, "MISSING_CONTEXT")
              = Bit(NumberFound(raw) /\ ~hasCandidateContext(RawText(raw)))
        /\ AllOfConfidence(once.warnings, "POSSIBLE_FALSE_POSITIVE", 60)
        /\ AllOfConfidence(once.warnings, "MISSING_CONTEXT", 70)
        /\ ~NumberFound(raw) => once.warnings = raw.warnings
        /\ Has(raw.warnings) =>
              SubSeq(Get(once.warnings), 1, Len(Get(raw.warnings))) = Get(raw.warnings)

\* C10 witness: an 8-digit number in a raw text without the candidate-number
\* phrase got both warnings.
C10_Witness ==
    /\ phase = "once"
    /\ NumberFound(raw)
    /\ PhonePattern(RawText(raw))
    /\ ~hasCandidateContext(RawText(raw))
    /\ Added(raw, once, "POSSIBLE_FALSE_POSITIVE") = 1
    /\ Added(raw, once, "MISSING_CONTEXT") = 1

\* one of the three patterns of validateTextContent matches the text
AnyTextPattern(text) ==
    \/ Test(text, jobSeekerEnd)
    \/ Test(text, completeServiceEnd)
    \/ Test(text, seekObtainEnd)

\* C11: a returned result has an _analysis_trace; for a reply without one it
\* is the synthesized placeholder ("Not provided" for steps 1, 2 and 4, an
\* empty violations list; step 4 is the placeholder alone unless the text
\* rules appended their enforcement note to it afterwards), and a trace the
\* reply carried is kept: its steps 1 to 3 are as they came in.
C11_TraceEnsured ==
    ReturnedOnce =>
        /\ Has(once.analysis_trace)
        /\ ~Has(raw.analysis_trace) =>
              /\ Get(once.analysis_trace).step1_content_extraction = Some(NotProvided)
              /\ Get(once.analysis_trace).step2_document_type = Some(NotProvided)
              /\ Get(once.analysis_trace).step3_violations_found = Some(<<>>)
              /\ Has(Get(once.analysis_trace).step4_decision_logic)
              /\ Head(Get(Get(once.analysis_trace).step4_decision_logic)) = NotProvided
              /\ ~AnyTextPattern(RawText(raw)) =>
                    once.analysis_trace = Some(PlaceholderTrace)
        /\ Has(raw.analysis_trace) =>
              /\ Get(once.analysis_trace).step1_content_extraction
                    = Get(raw.analysis_trace).step1_content_extraction
              /\ Get(once.analysis_trace).step2_document_type
                    = Get(raw.analysis_trace).step2_document_type
              /\ Get(once.analysis_trace).step3_violations_found
                    = Get(raw.analysis_trace).step3_violations_found

\* C11 witness: a reply without a trace was returned with the placeholder.
C11_Witness ==
    /\ ReturnedOnce
    /\ ~Has(raw.analysis_trace)
    /\ once.analysis_trace = Some(PlaceholderTrace)

\* a prohibited-content item of the rule with found true
FoundRule(r, rule) ==
    \E i \in 1..Len(ItemsOrEmpty(Category(r, "prohibitedContent"))) :
        /\ ItemsOrEmpty(Category(r, "prohibitedContent"))[i].rule = rule
        /\ ItemsOrEmpty(Category(r, "prohibitedContent"))[i].found = Some(TRUE)

\* a content-scope item of the rule with violated true
ViolatedRule(r, rule) ==
    \E i \in 1..Len(ItemsOrEmpty(Category(r, "contentScope"))) :
        /\ ItemsOrEmpty(Category(r, "contentScope"))[i].rule = rule
        /\ ItemsOrEmpty(Category(r, "contentScope"))[i].violated = Some(TRUE)

\* the details of the first found HISTORICAL_SYMBOLS item mention the word
HistoricalMentions(r, word) ==
    LET items == ItemsOrEmpty(Category(r, "prohibitedContent"))
        first_ == MinOf({ i \in 1..Len(items) :
                            items[i].rule = "HISTORICAL_SYMBOLS"
                                /\ items[i].found = Some(TRUE) })
    IN /\ FoundRule(r, "HISTORICAL_SYMBOLS")
       /\ Has(items[first_].details)
       /\ Includes(toLowerCase(Get(items[first_].details)), <<word>>)

MissingRequired(r, element) ==
    \E i \in 1..Len(ItemsOrEmpty(Category(r, "requiredContent"))) :
        /\ ItemsOrEmpty(Category(r, "requiredContent"))[i].element = element
        /\ ItemsOrEmpty(Category(r, "requiredContent"))[i].present # Some(TRUE)

DocumentTypeMismatch(r) ==
    Has(r.documentType) /\ Get(r.documentType).isElectionPropaganda # Some(TRUE)

DocumentTypeMessage(r) ==
    CASE ~Has(r.documentType) -> ""
      [] Get(r.documentType).actualType = Some("training_ad") -> TrainingAdMsg
      [] Get(r.documentType).actualType = Some("press_interview") ->
            "The attached document is a press interview and not election propaganda"
      [] Get(r.documentType).actualType = Some("proposal") ->
            "The publication has nothing to do with election propaganda. Rather, it is a proposal to solve a problem"
      [] Get(r.documentType).actualType = Some("social_post") ->
            "The post has nothing to do with election propaganda"
      [] OTHER -> "This is not election propaganda"

\* the rules in priority order, each with whether it matches r and its message
PriorityList(r) ==
    << <<DocumentTypeMismatch(r), DocumentTypeMessage(r)>>,
       <<Has(r.imageQuality)
            /\ Get(r.imageQuality).isAcceptable # Some(TRUE)
            /\ Has(Get(r.imageQuality).issues)
            /\ \E i \in 1..Len(Get(Get(r.imageQuality).issues)) :
                   Get(Get(r.imageQuality).issues)[i] = "blurry",
         "Photo is blurry">>,
       <<FoundRule(r, "CANDIDATE_NUMBER") /\ FoundRule(r, "ELECTION_LOGO"),
         "Removal of the candidate's number and election logo is required">>,
       <<FoundRule(r, "CANDIDATE_NUMBER"), "Please remove the candidate number">>,
       <<FoundRule(r, "ELECTION_LOGO"), "Please remove the election logo">>,
       <<FoundRule(r, "HISTORICAL_SYMBOLS")
            /\ (HistoricalMentions(r, "fort") \/ HistoricalMentions(r, "castle")),
         "Please remove the fort/castle from the image background as it is a historical symbol">>,
       <<FoundRule(r, "HISTORICAL_SYMBOLS") /\ HistoricalMentions(r, "gate"),
         "Please remove the gate from the image background as it is a historical symbol">>,
       <<FoundRule(r, "HISTORICAL_SYMBOLS"),
         "Please remove the historical symbol from the image background">>,
       <<FoundRule(r, "PUBLIC_FIGURES"), "The poster contains public figures">>,
       <<FoundRule(r, "STATE_EMBLEM"), "Please remove the state emblem">>,
       <<FoundRule(r, "NATIONAL_FLAG"), "Please remove the national flag">>,
       <<ViolatedRule(r, "OBJECTIVES_OUTSIDE_POWERS"),
         "Most of the objectives mentioned fall outside the legally defined powers of the Shura Council members">>,
       <<ViolatedRule(r, "ELECTION_PROMISES"),
         "The content of the objective involves an election promise">>,
       <<ViolatedRule(r, "DEVIATION_FROM_SCOPE"),
         "The poster deviated from the content of the election campaign, which includes the candidate's picture, biography, electoral vision, goals, or roles">>,
       <<ViolatedRule(r, "PREVIOUS_TERM_EXPLOITATION"),
         "Cannot exploit the previous term achievements">>,
       <<MissingRequired(r, "CANDIDATE_PHOTO") \/ MissingRequired(r, "CANDIDATE_NAME"),
         "Election campaigning is limited to the following: candidate photo, name, CV, and vision">>,
       <<TRUE, "Poster does not comply with election campaign regulations">> >>

\* the message of the first rule of the list that matches
RECURSIVE FirstMatching(_, _, _)
FirstMatching(r, list, k) ==
    IF list[k][1] THEN list[k][2] ELSE FirstMatching(r, list, k + 1)

\* the reply reaches generateRejectionReason with no reason set before:
\* it came without one, no text rule flags it, and it is non-compliant or
\* corrected by the non-election fix
ReasonGenerated ==
    /\ ReturnedOnce
    /\ ~TruthyStr(raw.rejectionReason)
    /\ ~AnyTextPattern(RawText(raw))
    /\ (raw.isCompliant # Some(TRUE) \/ NonElection(raw))

\* C12: the reason generateRejectionReason gives a result is the message of
\* the first rule of the fixed priority list that matches it, never that of
\* a later rule.
C12_ReasonPriority ==
    ReasonGenerated =>
        once.rejectionReason = Some(<<FirstMatching(raw, PriorityList(raw), 1)>>)

\* C12 witness: an election poster whose only finding is a found candidate
\* number got the candidate-number message.
C12_Witness ==
    /\ ReasonGenerated
    /\ ~DocumentTypeMismatch(raw)
    /\ FoundRule(raw, "CANDIDATE_NUMBER")
    /\ ~FoundRule(raw, "ELECTION_LOGO")
    /\ Len(ItemsOrEmpty(Category(raw, "prohibitedContent"))) = 1
    /\ once.rejectionReason = Some(<<"Please remove the candidate number">>)

\* the confidences of all items of a category that carry one, 0 included
AllConfidencesOf(items) ==
    LET kept == SelectSeq(items, LAMBDA item : Has(item.confidence))
    IN [i \in 1..Len(kept) |-> Get(kept[i].confidence)]

\* the mean over every item of the two categories is below x (no item: 85)
MeanOfAllBelow(r, x) ==
    LET confidences ==
            AllConfidencesOf(ItemsOrEmpty(Category(r, "prohibitedContent")))
            \o AllConfidencesOf(ItemsOrEmpty(Category(r, "contentScope")))
    IN IF confidences = <<>> THEN 85 < x
       ELSE SumSeq(confidences) < x * Len(confidences)

\* the formula of the claim, on the result as it stands after the text rules
ClaimedConfidence(r) ==
    Max2(50, Min2(100,
        90
        - 20 * Bit(Get(r.analysis_trace).step1_content_extraction
                       \in {None, Some(""), Some(NotProvided)})
        - 10 * Bit(r.isCompliant # Some(TRUE)
                   /\ Get(r.analysis_trace).step3_violations_found \in {None, Some(<<>>)})
        + 5 * Bit(/\ Has(r.documentType)
                  /\ Has(Get(r.documentType).reasoning)
                  /\ Get(Get(r.documentType).reasoning) > 20)
        - 10 * Bit(MeanOfAllBelow(r, 70))))

\* C13: validationConfidence is clamp(90 - 20[step 1 absent or placeholder]
\* - 10[non-compliant with an empty violations list] + 5[reasoning longer
\* than 20] - 10[mean confidence over all items of the two categories below
\* 70], 50, 100), an item of confidence 0 counting as 0 in the mean.
C13_ConfidenceFormula ==
    ReturnedOnce => once.validationConfidence = Some(ClaimedConfidence(once))

\* the non-election fix fires on r
FixFires(r) == NonElection(r) /\ r.isCompliant = Some(TRUE)

Step4(r) == Get(r.analysis_trace).step4_decision_logic

\* C14: when the non-election fix fires, step4_decision_logic of the
\* returned result holds the non-election explanation, after the model's own
\* step 4 text when the reply carried one, and also when the reply came
\* without a trace.
C14_Step4Appended ==
    (ReturnedOnce /\ FixFires(raw)) =>
        /\ Has(Step4(once))
        /\ Includes(Get(Step4(once)), NonElectionStep4(raw))
        /\ (Has(raw.analysis_trace) /\ Has(Step4(raw))) =>
              SubSeq(Get(Step4(once)), 1, Len(Get(Step4(raw)))) = Get(Step4(raw))

\* the messages the text rules hand to flagDeterministicViolation
FlagMessages == {JobSeekerMsg, CompleteServiceMsg, SeekObtainMsg}

\* how often the message occurs in an optional reason
Occurrences(reason, m) ==
    IF Has(reason) THEN Cardinality({ i \in 1..Len(Get(reason)) : Get(reason)[i] = m })
    ELSE 0

\* the content-scope items of r with the rule and first violating objective
ItemsOfPair(r, rule, objective) ==
    { i \in 1..Len(ItemsOrEmpty(Category(r, "contentScope"))) :
        /\ ItemsOrEmpty(Category(r, "contentScope"))[i].rule = rule
        /\ FirstObjective(ItemsOrEmpty(Category(r, "contentScope"))[i]) = objective }

\* the flag routine's calls of one pass, from result before to result after
FlaggedOnce(before, after) ==
    /\ \A m \in FlagMessages :
          Occurrences(after.rejectionReason, m)
              <= Max2(1, Occurrences(before.rejectionReason, m))
    /\ TruthyStr(before.rejectionReason) =>
          SubSeq(Get(after.rejectionReason), 1, Len(Get(before.rejectionReason)))
              = Get(before.rejectionReason)
    /\ \A i \in 1..Len(ItemsOrEmpty(Category(after, "contentScope"))) :
          LET item == ItemsOrEmpty(Category(after, "contentScope"))[i]
          IN Cardinality(ItemsOfPair(after, item.rule, FirstObjective(item)))
                <= Max2(1, Cardinality(ItemsOfPair(before, item.rule,
                                                   FirstObjective(item))))

\* C15: over the calls of flagDeterministicViolation of one pass and of a
\* second pass on the same result, each message is in rejectionReason at most
\* once, a reason present before is kept as prefix, and no (rule, first
\* violating objective) pair gets a second content-scope item.
C15_FlagDeduplicates ==
    /\ phase \in {"once", "twice"} => FlaggedOnce(raw, first.value)
    /\ phase = "twice" => FlaggedOnce(once, second.value)

\* C15 witness: two text rules fired in each of two passes on a reply that
\* had a reason of its own; the reason holds both messages once after it and
\* each rule has one item.
C15_Witness ==
    /\ phase = "twice"
    /\ Test(RawText(raw), jobSeekerEnd) /\ Test(RawText(raw), seekObtainEnd)
    /\ raw.rejectionReason = Some(<<"Model reason">>)
    /\ twice.rejectionReason
          = Some(<<"Model reason", " | ", JobSeekerMsg, " | ", SeekObtainMsg>>)
    /\ Cardinality(ItemsOfPair(twice, "OBJECTIVES_OUTSIDE_POWERS",
                               Some(Match0(RawText(raw), jobSeekerEnd)))) = 1
    /\ Cardinality(ItemsOfPair(twice, "ELECTION_PROMISES",
                               Some(Match0(RawText(raw), seekObtainEnd)))) = 1

\* the result as validateNumberDetection receives it (after steps 1 to 3)
BeforeNumberDetection(r) ==
    ensureAnalysisTrace(fixNonElectionLogic(attachSchemaValidation(r, validateSchema(r))))

\* after differs from before in warnings at most, and keeps the old warnings
OnlyWarningsAdded(before, after) ==
    /\ [after EXCEPT !.warnings = before.warnings] = before
    /\ Has(before.warnings) =>
          /\ Has(after.warnings)
          /\ SubSeq(Get(after.warnings), 1, Len(Get(before.warnings)))
                = Get(before.warnings)

\* C16: validateNumberDetection changes no field but warnings, to which it
\* only appends; the prohibited-content items, the found flag of the
\* CANDIDATE_NUMBER item among them, are in the returned result as they
\* came in, whether or not a warning was appended.
C16_NumberDetectionAdvisory ==
    phase \in {"once", "twice"} =>
        /\ OnlyWarningsAdded(BeforeNumberDetection(raw),
                             validateNumberDetection(BeforeNumberDetection(raw)))
        /\ Category(first.value, "prohibitedContent") = Category(raw, "prohibitedContent")

\* C16 witness: a found candidate number got a false-positive warning next
\* to the warning that was there, and is still reported as found.
C16_Witness ==
    /\ ReturnedOnce
    /\ NumberFound(raw)
    /\ Has(raw.warnings)
    /\ Added(raw, once, "POSSIBLE_FALSE_POSITIVE") = 1
    /\ NumberFound(once)
    /\ once.isCompliant = raw.isCompliant
    /\ once.overallScore = raw.overallScore

\* the trace of r is a real one: its step 1 is there and is no placeholder
NonPlaceholderTrace(r) ==
    /\ Has(r.analysis_trace)
    /\ Get(r.analysis_trace).step1_content_extraction
          \notin {None, Some(""), Some(NotProvided)}

\* C17: metadata.hasAnalysisTrace of the returned result is true exactly
\* when the trace is no placeholder: false for a reply without a trace, for
\* which the placeholder was synthesized, true for a reply with a real
\* step1_content_extraction.
C17_HasAnalysisTrace ==
    ReturnedOnce =>
        Get(once.metadata).hasAnalysisTrace = Some(NonPlaceholderTrace(raw))

\* C18: reconciliation of an object reply never raises, whichever fields the
\* reply lacks, and returns a result with validationConfidence and metadata.
C18_IncompleteReplyNotFatal ==
    phase = "once" =>
        /\ ~first.threw
        /\ Has(once.validationConfidence)
        /\ Has(once.metadata)

\* one pass never turns the verdict to compliant nor the score to a value
\* other than 0
TowardsRejection(before, after) ==
    /\ after.isCompliant \in {before.isCompliant, Some(FALSE)}
    /\ after.overallScore \in {before.overallScore, Some(0)}
    /\ before.isCompliant = Some(FALSE) => after.isCompliant = Some(FALSE)

\* C19: reconciliation only moves towards rejection: a pass leaves the
\* verdict and the score as they were or sets them to false and 0, and a
\* result returned as compliant has a raw text that matches none of the
\* three text rules and a document type that is not non-election.
C19_MonotoneTowardsRejection ==
    /\ ReturnedOnce =>
          /\ TowardsRejection(raw, once)
          /\ once.isCompliant = Some(TRUE) =>
                /\ ~AnyTextPattern(RawText(raw))
                /\ ~NonElection(raw)
    /\ ReturnedTwice => TowardsRejection(once, twice)

\* C19 witness: a non-election reply marked compliant was returned rejected
\* with score 0.
C19_Witness ==
    /\ ReturnedOnce
    /\ FixFires(raw)
    /\ raw.overallScore = Some(40)
    /\ once.isCompliant = Some(FALSE)
    /\ once.overallScore = Some(0)

\* C20: when one of the three text rules matches the raw text, the returned
\* result's categories.contentScope.status is "fail", also when the model
\* had reported an item of the same rule and first violating text itself
\* under a contentScope of status "pass".
C20_ContentScopeFails ==
    (ReturnedOnce /\ AnyTextPattern(RawText(raw))) =>
        /\ Has(Category(once, "contentScope"))
        /\ Get(Category(once, "contentScope")).status = Some("fail")
====
